---------------------------- MODULE Spec2Model ----------------------------
(***************************************************************************)
(* A model of curlyBrace.py: getAxSize and curlyBrace, called by a user    *)
(* against a matplotlib axes.                                              *)
(*                                                                         *)
(* Numbers.  A Python float is modelled as a fixed-point number: the       *)
(* integer n stands for the real n / FP.  Three values outside the finite  *)
(* range stand for IEEE +inf, -inf and NaN, and every arithmetic operator  *)
(* below follows the IEEE rule for them (numpy warns and goes on; it does  *)
(* not raise).  Angles are fixed-point radians, so Pi is np.pi rounded to  *)
(* the model's resolution.  Signed zero is not modelled.                   *)
(***************************************************************************)
EXTENDS Integers, Sequences, FiniteSets

\* ------------------------------------------------------------------------
\* Fixed-point floats
\* ------------------------------------------------------------------------

FP == 10000

MaxFinite == 1000000000
PosInf == MaxFinite + 1
NegInf == 0 - PosInf
NaN == MaxFinite + 2

IsFinite(x) == (0 - MaxFinite) <= x /\ x <= MaxFinite
IsNaN(x) == x = NaN
IsInf(x) == x = PosInf \/ x = NegInf

Abs(x) == IF x < 0 THEN 0 - x ELSE x
Sgn(x) == IF x < 0 THEN 0 - 1 ELSE IF x = 0 THEN 0 ELSE 1

\* a * b / c for a, b >= 0 and c > 0, rounded to nearest, in two steps so
\* that no intermediate product leaves the machine integer range.
MulDiv(a, b, c) == (a \div c) * b + (((a % c) * b + (c \div 2)) \div c)

\* a * FP / b for a >= 0 and b > 0, rounded to nearest, two decimal digits
\* at a time for the same reason.
LongDiv(a, b) ==
  LET h == (a % b) * 100
  IN  (a \div b) * FP + (h \div b) * 100 + (((h % b) * 100 + (b \div 2)) \div b)

FNeg(a) == IF a = NaN THEN NaN ELSE 0 - a

FAdd(a, b) ==
  IF IsFinite(a) /\ IsFinite(b) THEN a + b
  ELSE IF a = NaN \/ b = NaN THEN NaN
  ELSE IF IsInf(a) /\ IsInf(b) THEN (IF a = b THEN a ELSE NaN)
  ELSE IF IsInf(a) THEN a ELSE b

FSub(a, b) == FAdd(a, FNeg(b))

FMul(a, b) ==
  IF IsFinite(a) /\ IsFinite(b)
  THEN Sgn(a) * Sgn(b) * (IF Abs(a) >= Abs(b) THEN MulDiv(Abs(a), Abs(b), FP)
                                              ELSE MulDiv(Abs(b), Abs(a), FP))
  ELSE IF a = NaN \/ b = NaN THEN NaN
  ELSE IF a = 0 \/ b = 0 THEN NaN
  ELSE IF Sgn(a) * Sgn(b) > 0 THEN PosInf ELSE NegInf

FDiv(a, b) ==
  IF IsFinite(a) /\ IsFinite(b)
  THEN IF b = 0
       THEN (IF a = 0 THEN NaN ELSE IF a > 0 THEN PosInf ELSE NegInf)
       ELSE Sgn(a) * Sgn(b) * LongDiv(Abs(a), Abs(b))
  ELSE IF a = NaN \/ b = NaN THEN NaN
  ELSE IF IsInf(a) /\ IsInf(b) THEN NaN
  ELSE IF IsInf(b) THEN 0
  ELSE IF Sgn(a) * (IF b < 0 THEN 0 - 1 ELSE 1) > 0 THEN PosInf ELSE NegInf

\* Comparisons: every ordered comparison with NaN is false.
FLe(a, b) == a # NaN /\ b # NaN /\ a <= b
FLt(a, b) == a # NaN /\ b # NaN /\ a < b
FGe(a, b) == FLe(b, a)
FGt(a, b) == FLt(b, a)

\* ------------------------------------------------------------------------
\* Elementary functions (numpy ufuncs)
\* ------------------------------------------------------------------------

Pi == 31416
HalfPi == Pi \div 2
TwoPi == 2 * Pi

\* sin and cos on [0, pi/2] by their Taylor series in Horner form.
SinSeries(x) ==
  LET x2 == FMul(x, x)
      p9 == FP - (x2 \div 72)
      p7 == FP - (FMul(x2, p9) \div 42)
      p5 == FP - (FMul(x2, p7) \div 20)
      p3 == FP - (FMul(x2, p5) \div 6)
  IN  FMul(x, p3)

CosSeries(x) ==
  LET x2 == FMul(x, x)
      p10 == FP - (x2 \div 90)
      p8 == FP - (FMul(x2, p10) \div 56)
      p6 == FP - (FMul(x2, p8) \div 30)
      p4 == FP - (FMul(x2, p6) \div 12)
  IN  FP - (FMul(x2, p4) \div 2)

Clamp01(v) == IF v > FP THEN FP ELSE IF v < 0 THEN 0 ELSE v

\* The two series tabulated once over the first quadrant [0, pi/2): entry
\* z + 1 holds the value at z, exact at 0.
SinTable == [i \in 1..HalfPi |-> IF i = 1 THEN 0 ELSE Clamp01(SinSeries(i - 1))] \o <<>>
CosTable == [i \in 1..HalfPi |-> IF i = 1 THEN FP ELSE Clamp01(CosSeries(i - 1))] \o <<>>

SinQ(z) == SinTable[z + 1]
CosQ(z) == CosTable[z + 1]

\* np.cos, np.sin: reduction to the first quadrant, then the series.
Cos(x) ==
  IF ~IsFinite(x) THEN NaN
  ELSE LET y == x % TwoPi
           k == y \div HalfPi
           z == y % HalfPi
       IN  CASE k = 0 -> CosQ(z)
             [] k = 1 -> 0 - SinQ(z)
             [] k = 2 -> 0 - CosQ(z)
             [] OTHER -> SinQ(z)

Sin(x) ==
  IF ~IsFinite(x) THEN NaN
  ELSE LET y == x % TwoPi
           k == y \div HalfPi
           z == y % HalfPi
       IN  CASE k = 0 -> SinQ(z)
             [] k = 1 -> CosQ(z)
             [] k = 2 -> 0 - SinQ(z)
             [] OTHER -> 0 - CosQ(z)

\* Integer square root by Newton's iteration.
RECURSIVE SqrtIter(_, _)
SqrtIter(n, g) ==
  LET h == (g + n \div g) \div 2
  IN  IF h >= g THEN g ELSE SqrtIter(n, h)

ISqrt(n) == IF n = 0 THEN 0 ELSE SqrtIter(n, n)

\* Square root of a fixed-point number in [0, 4].
FSqrt(v) ==
  LET s == ISqrt(v * FP)
  IN  IF (s + 1) * (s + 1) - v * FP <= v * FP - s * s THEN s + 1 ELSE s

\* np.hypot: the larger leg times sqrt(1 + (smaller/larger)^2).
Hypot(x, y) ==
  IF IsInf(x) \/ IsInf(y) THEN PosInf
  ELSE IF x = NaN \/ y = NaN THEN NaN
  ELSE LET a == Abs(x)
           b == Abs(y)
           m == IF a >= b THEN a ELSE b
           n == IF a >= b THEN b ELSE a
           u == FDiv(n, m)
       IN  IF m = 0 THEN 0 ELSE FMul(m, FSqrt(FP + FMul(u, u)))

\* arctan on [-tan(pi/8), tan(pi/8)] by its series.
AtanSeries(z) ==
  LET z2 == FMul(z, z)
      p13 == FP \div 13
      p11 == (FP \div 11) - FMul(z2, p13)
      p9 == (FP \div 9) - FMul(z2, p11)
      p7 == (FP \div 7) - FMul(z2, p9)
      p5 == (FP \div 5) - FMul(z2, p7)
      p3 == (FP \div 3) - FMul(z2, p5)
  IN  z - FMul(z, FMul(z2, p3))

\* arctan on [0, 1]; arctan(1) is exactly pi/4.
Atan01(u) ==
  IF u = FP THEN Pi \div 4
  ELSE IF u > 4142 THEN (Pi \div 4) + AtanSeries(FDiv(u - FP, u + FP))
  ELSE AtanSeries(u)

\* np.arctan2, with the IEEE results for infinite arguments.
Atan2(y, x) ==
  IF x = NaN \/ y = NaN THEN NaN
  ELSE IF IsInf(x) /\ IsInf(y)
       THEN Sgn(y) * (IF x > 0 THEN Pi \div 4 ELSE 3 * (Pi \div 4))
  ELSE IF IsInf(y) THEN Sgn(y) * HalfPi
  ELSE IF IsInf(x) THEN (IF x > 0 THEN 0 ELSE IF y < 0 THEN 0 - Pi ELSE Pi)
  ELSE IF y = 0 THEN (IF x >= 0 THEN 0 ELSE Pi)
  ELSE IF x = 0 THEN Sgn(y) * HalfPi
  ELSE LET a == Abs(x)
           b == Abs(y)
           base == IF b <= a THEN Atan01(FDiv(b, a))
                   ELSE HalfPi - Atan01(FDiv(a, b))
       IN  IF x > 0 THEN Sgn(y) * base ELSE Sgn(y) * (Pi - base)

Ln2 == 6931

RECURSIVE Pow2(_)
Pow2(k) == IF k = 0 THEN 1 ELSE 2 * Pow2(k - 1)

\* The k >= 0 with 2^k * FP <= x < 2^(k+1) * FP, for x >= FP.
RECURSIVE Log2Floor(_)
Log2Floor(x) == IF x < 2 * FP THEN 0 ELSE 1 + Log2Floor(x \div 2)

\* The k >= 0 with FP <= x * 2^k < 2 * FP, for 0 < x <= FP.
RECURSIVE Log2Ceil(_)
Log2Ceil(x) == IF x >= FP THEN 0 ELSE 1 + Log2Ceil(2 * x)

\* ln on [1, 2): 2 * artanh((m - 1) / (m + 1)) by its series.
LnSeries(m) ==
  LET z == FDiv(m - FP, m + FP)
      z2 == FMul(z, z)
      p9 == FP \div 9
      p7 == (FP \div 7) + FMul(z2, p9)
      p5 == (FP \div 5) + FMul(z2, p7)
      p3 == (FP \div 3) + FMul(z2, p5)
  IN  2 * (z + FMul(z, FMul(z2, p3)))

\* np.log: NaN below zero, -inf at zero.
Ln(x) ==
  IF x = NaN THEN NaN
  ELSE IF x = PosInf THEN PosInf
  ELSE IF x < 0 THEN NaN
  ELSE IF x = 0 THEN NegInf
  ELSE IF x >= FP
       THEN LET k == Log2Floor(x)
            IN  ((k * 69315 + 5) \div 10) + LnSeries(MulDiv(x, 1, Pow2(k)))
       ELSE LET k == Log2Ceil(x)
            IN  LnSeries(x * Pow2(k)) - ((k * 69315 + 5) \div 10)

\* exp on [-ln2/2, ln2/2] by its Taylor series.
ExpSeries(f) ==
  LET p7 == FP + f \div 7
      p6 == FP + FMul(f, p7) \div 6
      p5 == FP + FMul(f, p6) \div 5
      p4 == FP + FMul(f, p5) \div 4
      p3 == FP + FMul(f, p4) \div 3
      p2 == FP + FMul(f, p3) \div 2
  IN  FP + FMul(f, p2)

\* np.exp.
Exp(x) ==
  IF x = NaN THEN NaN
  ELSE IF x = PosInf THEN PosInf
  ELSE IF x = NegInf THEN 0
  ELSE LET k == (x + (Ln2 \div 2)) \div Ln2
           e == ExpSeries(x - ((k * 69315 + 5) \div 10))
       IN  IF k >= 0 THEN e * Pow2(k) ELSE MulDiv(e, 1, Pow2(0 - k))

\* np.degrees: x * 180 / pi, in fixed-point degrees.
Degrees(x) ==
  IF ~IsFinite(x) THEN x
  ELSE Sgn(x) * MulDiv(Abs(x), (180 * FP) \div 24, Pi \div 24)

\* Python's float %: the result takes the sign of the divisor; NaN stays NaN.
FMod(x, m) == IF IsFinite(x) THEN x % m ELSE NaN

\* ------------------------------------------------------------------------
\* curlyBrace.py
\* ------------------------------------------------------------------------

\* Samples per arc: the third argument of np.linspace.
NumSamples == 50

\* np.linspace(start, stop, num): start + j * (stop - start) / (num - 1),
\* the last sample being stop itself.
Linspace(start, stop, num) ==
  LET delta == FSub(stop, start)
  IN  [j \in 1..num |->
         IF j = num THEN stop
         ELSE IF ~IsFinite(delta) \/ ~IsFinite(start) THEN FAdd(start, delta)
         ELSE start + Sgn(delta) * MulDiv(Abs(delta), j - 1, num - 1)] \o <<>>

\* q[::-1]
Reversed(q) == [j \in 1..Len(q) |-> q[Len(q) + 1 - j]] \o <<>>

\* 'log' in axis.get_scale(): true of every matplotlib scale whose name
\* contains "log".
HasLog(scale) == scale \in {"log", "symlog", "logit", "functionlog"}

\* getAxSize: the window extent in inches (pixels over dpi) times the dpi.
getAxSize(fig, ax) ==
  <<FMul(FDiv(ax.window_extent[1], fig.dpi), fig.dpi),
    FMul(FDiv(ax.window_extent[2], fig.dpi), fig.dpi)>>

\* Lines 187-212, one axis: the coordinate and the limits go through np.log
\* when the axis is logarithmic.
LogOf(scale, v) == IF HasLog(scale) THEN Ln(v) ELSE v

\* A variant that scales to pixels even when bool_auto is off.
ScaleOfAlwaysAuto(bool_auto, size, lim) == FDiv(size, FSub(lim[2], lim[1]))

\* Lines 214-226: pixels per unit length, or 1.0 when bool_auto is off.
ScaleOf(bool_auto, size, lim) ==
  IF bool_auto THEN FDiv(size, FSub(lim[2], lim[1])) ELSE FP

\* Lines 228-233: move to the origin, then to pixels.
ToPixels(v, lim, scale) == FMul(FSub(v, lim[1]), scale)

\* A variant that forgets to move back from the origin.
ToAxisNoShift(v, lim, scale, kind) ==
  LET w == FDiv(v, scale)
  IN  IF HasLog(kind) THEN Exp(w) ELSE w

\* Lines 277-309: back to the axis coordinates, one coordinate of one point.
ToAxis(v, lim, scale, kind) ==
  LET w == FAdd(FDiv(v, scale), lim[1])
  IN  IF HasLog(kind) THEN Exp(w) ELSE w

\* Variants of the centres: arc1's centre at pt1 itself, and arc2's centre
\* only r off the chord.
Centre1AtPoint(pt1, r, theta) == pt1

Centre2Low(pt1, pt2, r, theta) ==
  <<FSub(FSub(FDiv(FAdd(pt2[1], pt1[1]), 2 * FP),
              FMul(r, Sin(theta))), FMul(r, Cos(theta))),
    FSub(FAdd(FDiv(FAdd(pt2[2], pt1[2]), 2 * FP),
              FMul(r, Cos(theta))), FMul(r, Sin(theta)))>>

\* Lines 241-255: the four arc centres.
Centre1(pt1, r, theta) ==
  <<FAdd(pt1[1], FMul(r, Cos(theta))), FAdd(pt1[2], FMul(r, Sin(theta)))>>

Centre2(pt1, pt2, r, theta) ==
  <<FSub(FSub(FDiv(FAdd(pt2[1], pt1[1]), 2 * FP),
              FMul(FMul(2 * FP, r), Sin(theta))), FMul(r, Cos(theta))),
    FSub(FAdd(FDiv(FAdd(pt2[2], pt1[2]), 2 * FP),
              FMul(FMul(2 * FP, r), Cos(theta))), FMul(r, Sin(theta)))>>

Centre3(pt1, pt2, r, theta) ==
  <<FAdd(FSub(FDiv(FAdd(pt2[1], pt1[1]), 2 * FP),
              FMul(FMul(2 * FP, r), Sin(theta))), FMul(r, Cos(theta))),
    FAdd(FAdd(FDiv(FAdd(pt2[2], pt1[2]), 2 * FP),
              FMul(FMul(2 * FP, r), Cos(theta))), FMul(r, Sin(theta)))>>

Centre4(pt2, r, theta) ==
  <<FSub(pt2[1], FMul(r, Cos(theta))), FSub(pt2[2], FMul(r, Sin(theta)))>>

\* Lines 264-275: an arc is the centre plus r at each sampled angle shifted
\* by the arc's phase.  An arc is a record of two coordinate arrays.
ArcAt(c, r, angles, phase) ==
  [x |-> [j \in 1..Len(angles) |-> FAdd(FMul(r, Cos(FAdd(angles[j], phase))), c[1])] \o <<>>,
   y |-> [j \in 1..Len(angles) |-> FAdd(FMul(r, Sin(FAdd(angles[j], phase))), c[2])] \o <<>>]

\* A variant of arc1 sampled in increasing order.
Arc1Forward(c, r, q, t) == [x |-> [j \in 1..Len(q) |-> FAdd(FMul(r, Cos(FAdd(q[j], HalfPi))), c[1])] \o <<>>,
                            y |-> [j \in 1..Len(q) |-> FAdd(FMul(r, Sin(FAdd(q[j], HalfPi))), c[2])] \o <<>>]

Arc1(c, r, q, t) == ArcAt(c, r, t, HalfPi)

Arc2(c, r, q, t) == ArcAt(c, r, q, 0 - HalfPi)

Arc3(c, r, q, t) == ArcAt(c, r, q, Pi)

Arc4(c, r, q, t) == ArcAt(c, r, t, 0)

\* Lines 277-309 applied to a whole arc.
ArcToAxis(a, ax, ax_xlim, ax_ylim, xscale, yscale) ==
  [x |-> [j \in 1..Len(a.x) |-> ToAxis(a.x[j], ax_xlim, xscale, ax.xscale)] \o <<>>,
   y |-> [j \in 1..Len(a.y) |-> ToAxis(a.y[j], ax_ylim, yscale, ax.yscale)] \o <<>>]

\* ax.plot(x, y, **kwargs)
Plot(x, y, kwargs) == [op |-> "plot", x |-> x, y |-> y, kwargs |-> kwargs]

\* A variant whose straight lines end at the first sample of the next arc.
PlotCallsToFirst(arc1, arc2, arc3, arc4, kwargs) ==
  << [op |-> "plot", x |-> arc1.x, y |-> arc1.y, kwargs |-> kwargs],
     [op |-> "plot", x |-> arc2.x, y |-> arc2.y, kwargs |-> kwargs],
     [op |-> "plot", x |-> arc3.x, y |-> arc3.y, kwargs |-> kwargs],
     [op |-> "plot", x |-> arc4.x, y |-> arc4.y, kwargs |-> kwargs],
     [op |-> "plot", x |-> <<arc1.x[Len(arc1.x)], arc2.x[1]>>,
      y |-> <<arc1.y[Len(arc1.y)], arc2.y[1]>>, kwargs |-> kwargs],
     [op |-> "plot", x |-> <<arc3.x[Len(arc3.x)], arc4.x[1]>>,
      y |-> <<arc3.y[Len(arc3.y)], arc4.y[1]>>, kwargs |-> kwargs] >>

\* Lines 311-319: the four arcs, then the two straight lines.  Python's
\* index -1 is the last sample and index 1 the second one.
PlotCalls(arc1, arc2, arc3, arc4, kwargs) ==
  << Plot(arc1.x, arc1.y, kwargs),
     Plot(arc2.x, arc2.y, kwargs),
     Plot(arc3.x, arc3.y, kwargs),
     Plot(arc4.x, arc4.y, kwargs),
     Plot(<<arc1.x[Len(arc1.x)], arc2.x[2]>>, <<arc1.y[Len(arc1.y)], arc2.y[2]>>, kwargs),
     Plot(<<arc3.x[Len(arc3.x)], arc4.x[2]>>, <<arc3.y[Len(arc3.y)], arc4.y[2]>>, kwargs) >>

\* '\n' * int_line_num: empty when the count is not positive.
Newlines(n) == [i \in 1..(IF n > 0 THEN n ELSE 0) |-> "\n"]

\* Lines 330-348.  A string is a sequence of pieces, "\n" being a line
\* break.  bound is FALSE when no branch assigned rotation.
Unbound == [bound |-> FALSE, rotation |-> 0, str_text |-> <<>>]

\* Two variants of the rule: one puts a = 90 in the second branch, the other
\* does not turn the text in the second branch.
LabelPlacementOpen90(ang, str_text, str_temp) ==
  IF FGe(ang, 0) /\ FLt(ang, 90 * FP)
  THEN [bound |-> TRUE, rotation |-> ang, str_text |-> str_text \o str_temp]
  ELSE IF FGe(ang, 90 * FP) /\ FLt(ang, 270 * FP)
  THEN [bound |-> TRUE, rotation |-> FAdd(ang, 180 * FP), str_text |-> str_temp \o str_text]
  ELSE IF FGe(ang, 270 * FP) /\ FLe(ang, 360 * FP)
  THEN [bound |-> TRUE, rotation |-> ang, str_text |-> str_text \o str_temp]
  ELSE [bound |-> FALSE, rotation |-> 0, str_text |-> str_text]

LabelPlacementNoTurn(ang, str_text, str_temp) ==
  IF FGt(ang, 90 * FP) /\ FLt(ang, 270 * FP)
  THEN [bound |-> TRUE, rotation |-> ang, str_text |-> str_temp \o str_text]
  ELSE IF FGe(ang, 0) /\ FLe(ang, 360 * FP)
  THEN [bound |-> TRUE, rotation |-> ang, str_text |-> str_text \o str_temp]
  ELSE [bound |-> FALSE, rotation |-> 0, str_text |-> str_text]

LabelPlacement(ang, str_text, str_temp) ==
  LET first == IF FGe(ang, 0) /\ FLe(ang, 90 * FP)
               THEN [bound |-> TRUE, rotation |-> ang, str_text |-> str_text \o str_temp]
               ELSE [bound |-> FALSE, rotation |-> 0, str_text |-> str_text]
  IN  IF FGt(ang, 90 * FP) /\ FLt(ang, 270 * FP)
      THEN [bound |-> TRUE, rotation |-> FAdd(ang, 180 * FP),
            str_text |-> str_temp \o first.str_text]
      ELSE IF FGe(ang, 270 * FP) /\ FLe(ang, 360 * FP)
      THEN [bound |-> TRUE, rotation |-> ang, str_text |-> first.str_text \o str_temp]
      ELSE first

\* ax.axes.text(x, y, s, ha='center', va='center', rotation=..., fontdict=...)
Text(x, y, s, rotation, fontdict) ==
  [op |-> "text", x |-> x, y |-> y, s |-> s, ha |-> "center", va |-> "center",
   rotation |-> rotation, fontdict |-> fontdict]

\* Lines 182-233: the limits, the scale factors and the two points in
\* pixels.
Transformed(fig, ax, p1, p2, bool_auto) ==
  LET size == getAxSize(fig, ax)
      ax_xlim == <<LogOf(ax.xscale, ax.xlim[1]), LogOf(ax.xscale, ax.xlim[2])>>
      ax_ylim == <<LogOf(ax.yscale, ax.ylim[1]), LogOf(ax.yscale, ax.ylim[2])>>
      xscale == ScaleOf(bool_auto, size[1], ax_xlim)
      yscale == ScaleOf(bool_auto, size[2], ax_ylim)
  IN  [ ax_xlim |-> ax_xlim, ax_ylim |-> ax_ylim, xscale |-> xscale, yscale |-> yscale,
        pt1 |-> <<ToPixels(LogOf(ax.xscale, p1[1]), ax_xlim, xscale),
                  ToPixels(LogOf(ax.yscale, p1[2]), ax_ylim, yscale)>>,
        pt2 |-> <<ToPixels(LogOf(ax.xscale, p2[1]), ax_xlim, xscale),
                  ToPixels(LogOf(ax.yscale, p2[2]), ax_ylim, yscale)>> ]

\* Lines 235-262: the angle, the radius and the sampled angles.
Oriented(pt1, pt2, k_r) ==
  LET theta == Atan2(FSub(pt2[2], pt1[2]), FSub(pt2[1], pt1[1]))
      q == Linspace(theta, FAdd(theta, HalfPi), NumSamples)
  IN  [ theta |-> theta,
        r |-> FMul(Hypot(FSub(pt2[1], pt1[1]), FSub(pt2[2], pt1[2])), k_r),
        q |-> q, t |-> Reversed(q) ]

\* Lines 241-275: the four arcs in pixels.
PixelArcs(pt1, pt2, r, theta, q, t) ==
  [ arc1 |-> Arc1(Centre1(pt1, r, theta), r, q, t),
    arc2 |-> Arc2(Centre2(pt1, pt2, r, theta), r, q, t),
    arc3 |-> Arc3(Centre3(pt1, pt2, r, theta), r, q, t),
    arc4 |-> Arc4(Centre4(pt2, r, theta), r, q, t) ]

\* Lines 277-309: the four arcs in axis coordinates.
AxisArcs(px, ax, ax_xlim, ax_ylim, xscale, yscale) ==
  [ arc1 |-> ArcToAxis(px.arc1, ax, ax_xlim, ax_ylim, xscale, yscale),
    arc2 |-> ArcToAxis(px.arc2, ax, ax_xlim, ax_ylim, xscale, yscale),
    arc3 |-> ArcToAxis(px.arc3, ax, ax_xlim, ax_ylim, xscale, yscale),
    arc4 |-> ArcToAxis(px.arc4, ax, ax_xlim, ax_ylim, xscale, yscale) ]

\* Line 321.
Summit(arc2) == <<arc2.x[Len(arc2.x)], arc2.y[Len(arc2.y)]>>

\* Lines 323-350: the label, when str_text is not empty.
Labelled(theta, str_text, int_line_num) ==
  IF str_text # <<>>
  THEN LabelPlacement(FMod(Degrees(theta), 360 * FP), str_text, Newlines(int_line_num))
  ELSE Unbound

\* ------------------------------------------------------------------------
\* The caller, the figure and the axes
\* ------------------------------------------------------------------------

MaxCoord == 2
MaxCalls == 2
MaxLines == 2

VARIABLES
  fig,        \* the figure: its dpi
  ax,         \* the axes: limits, scale kinds, window extent in pixels
  p1, p2,     \* the caller's two point lists
  opts,       \* the caller's other arguments: k_r, bool_auto, str_text,
              \* int_line_num, fontdict ("default" when not passed), kwargs
  defaults,   \* the function's default-argument object fontdict={}
  calls,      \* the draw calls the axes received during the latest call
  ret,        \* how the latest call ended and what it returned
  loc,        \* the locals of the latest call when it ended
  inv,        \* the arguments and axes the latest call was made with
  prev,       \* the arguments, axes and label of the call before the latest
  ncalls      \* calls made so far

vars == <<fig, ax, p1, p2, opts, defaults, calls, ret, loc, inv, prev, ncalls>>

Coords == {c * FP : c \in 0..MaxCoord}
Anchor == <<FP, FP>>

LinearLimits == {<<0, 2 * FP>>, <<0 - FP, 3 * FP>>}
LogLimits == {<<FP \div 2, 4 * FP>>}
XLimitsOf(kind) == IF kind = "log" THEN LogLimits ELSE LinearLimits
YLimitsOf(kind) == IF kind = "log" THEN LogLimits ELSE {<<0, 2 * FP>>}

AxesOf(xs, ys) ==
  { [xlim |-> xl, ylim |-> yl, xscale |-> xs, yscale |-> ys,
     window_extent |-> <<400 * FP, 300 * FP>>] :
       xl \in XLimitsOf(xs), yl \in YLimitsOf(ys) }

Axes == UNION { AxesOf(xs, ys) : xs \in {"linear", "log"}, ys \in {"linear", "log"} }

Labels ==
  {[str_text |-> <<>>, int_line_num |-> 2, fontdict |-> "default"]} \cup
  {[str_text |-> <<"Span">>, int_line_num |-> n, fontdict |-> "default"] : n \in 1..MaxLines}

Options ==
  { [k_r |-> k, bool_auto |-> b, str_text |-> l.str_text,
     int_line_num |-> l.int_line_num, fontdict |-> l.fontdict,
     kwargs |-> <<"color", "k">>] :
       k \in {0, FP \div 10}, b \in BOOLEAN, l \in Labels }

NoReturn == [status |-> "none"]
NoCall == [made |-> FALSE]

\* The end points the caller starts from: the grid, and one point left of
\* the origin.
Points == (Coords \X Coords) \cup {<<0 - FP, FP>>}

Init ==
  /\ fig = [dpi |-> 100 * FP]
  /\ ax \in Axes
  /\ p1 = Anchor
  /\ p2 \in Points
  /\ opts \in Options
  /\ defaults = [fontdict |-> <<>>]
  /\ calls = <<>>
  /\ ret = NoReturn
  /\ loc = <<>>
  /\ inv = <<>>
  /\ prev = NoCall
  /\ ncalls = 0

\* The description of the latest call that the next one keeps as prev.
Digest ==
  [made |-> TRUE, inv |-> inv, status |-> ret.status,
   label |-> IF Len(calls) = 7 THEN <<calls[7].s, calls[7].rotation>> ELSE <<>>]

\* The fontdict the function body sees: the caller's, or the shared default.
FontdictArg == IF opts.fontdict = "default" THEN defaults.fontdict ELSE opts.fontdict

\* A variant in which pt1 and pt2 are the caller's own lists.
CallerListAliased(p, pt) == pt

\* pt1 = [None, None] and pt2 = [None, None] are new lists: what the body
\* writes into them does not reach the caller's p1 and p2.
CallerListAfter(p, pt) == p

\* fontdict is only handed on to ax.axes.text.
FontdictAfter(d, rotation) == d

\* One call of curlyBrace, from entry to return (or to the exception at
\* line 350 when no branch assigned rotation).
Call ==
  /\ ncalls < MaxCalls
  /\ \E T \in {Transformed(fig, ax, p1, p2, opts.bool_auto)} :
     \E G \in {Oriented(T.pt1, T.pt2, opts.k_r)} :
     \E px \in {PixelArcs(T.pt1, T.pt2, G.r, G.theta, G.q, G.t)} :
     \E arcs \in {AxisArcs(px, ax, T.ax_xlim, T.ax_ylim, T.xscale, T.yscale)} :
     \E lab \in {Labelled(G.theta, opts.str_text, opts.int_line_num)} :
     \E plots \in {PlotCalls(arcs.arc1, arcs.arc2, arcs.arc3, arcs.arc4, opts.kwargs)} :
       LET summit == Summit(arcs.arc2)
           raised == opts.str_text # <<>> /\ ~lab.bound
       IN  /\ calls' = IF opts.str_text # <<>> /\ lab.bound
                       THEN Append(plots, Text(summit[1], summit[2], lab.str_text,
                                               lab.rotation, FontdictArg))
                       ELSE plots
           /\ ret' = IF raised
                     THEN [status |-> "UnboundLocalError"]
                     ELSE [status |-> "returned", theta |-> G.theta, summit |-> summit,
                           arc1 |-> arcs.arc1, arc2 |-> arcs.arc2,
                           arc3 |-> arcs.arc3, arc4 |-> arcs.arc4]
           /\ loc' = [pt1 |-> T.pt1, pt2 |-> T.pt2, xscale |-> T.xscale, yscale |-> T.yscale,
                      ax_xlim |-> T.ax_xlim, ax_ylim |-> T.ax_ylim,
                      theta |-> G.theta, r |-> G.r,
                      arc1 |-> px.arc1, arc2 |-> px.arc2, arc3 |-> px.arc3, arc4 |-> px.arc4]
           /\ p1' = CallerListAfter(p1, T.pt1)
           /\ p2' = CallerListAfter(p2, T.pt2)
           /\ defaults' = [fontdict |-> FontdictAfter(defaults.fontdict, lab.rotation)]
  /\ inv' = [p1 |-> p1, p2 |-> p2, opts |-> opts, fontdict |-> FontdictArg,
             ax |-> ax, fig |-> fig]
  /\ prev' = IF ncalls = 0 THEN NoCall ELSE Digest
  /\ ncalls' = ncalls + 1
  /\ UNCHANGED <<fig, ax, opts>>

\* The caller exchanges the two points ("To reverse the text position, swap
\* p1 and p2") before calling again.
SwapPoints ==
  /\ ncalls > 0
  /\ p1 # p2
  /\ p1' = p2
  /\ p2' = p1
  /\ UNCHANGED <<fig, ax, opts, defaults, calls, ret, loc, inv, prev, ncalls>>

Next == Call \/ SwapPoints

Spec == Init /\ [][Next]_vars

\* ------------------------------------------------------------------------
\* Properties
\* ------------------------------------------------------------------------

\* Rounding allowance, in units of 1 / FP, for values that the body reaches
\* by a few fixed-point operations.
Tol == 8

Close(a, b) == IsFinite(a) /\ IsFinite(b) /\ Abs(a - b) <= Tol

\* The same allowance taken relative to a length len.
Slack(len) == Tol + MulDiv(Abs(len), Tol, FP)

Called == ncalls > 0
Returned == ret.status = "returned"

\* The latest call's coordinates were in the domain of np.log on every
\* logarithmic axis, so that everything the body computed is finite.
InDomain ==
  /\ HasLog(inv.ax.xscale) => inv.p1[1] > 0 /\ inv.p2[1] > 0
  /\ HasLog(inv.ax.yscale) => inv.p1[2] > 0 /\ inv.p2[2] > 0

\* a = degrees(theta) mod 360 of the latest call.
Angle == FMod(Degrees(loc.theta), 360 * FP)

Breaks(o) == Newlines(o.int_line_num)
Appended(str, o) == str = o.str_text \o Breaks(o)
Prepended(str, o) == str = Breaks(o) \o o.str_text

\* C1: with a non-empty label and a = degrees(theta) mod 360 in [0, 360), the
\* call returns having drawn the text with rotation a and the breaks after
\* the text when 0 <= a <= 90 or 270 <= a <= 360, and with rotation a + 180
\* and the breaks before the text when 90 < a < 270; "Span" with one break
\* from (0,0) to (1,1), auto-scale off, is drawn as "Span\n" at 45 degrees.
C1_LabelRule ==
  (Called /\ inv.opts.str_text # <<>> /\ IsFinite(Angle)) =>
     /\ Returned
     /\ Len(calls) = 7
     /\ (0 <= Angle /\ Angle <= 90 * FP) =>
           calls[7].rotation = Angle /\ Appended(calls[7].s, inv.opts)
     /\ (90 * FP < Angle /\ Angle < 270 * FP) =>
           calls[7].rotation = Angle + 180 * FP /\ Prepended(calls[7].s, inv.opts)
     /\ (270 * FP <= Angle /\ Angle <= 360 * FP) =>
           calls[7].rotation = Angle /\ Appended(calls[7].s, inv.opts)
     /\ ( /\ inv.p1 = <<0, 0>> /\ inv.p2 = <<FP, FP>> /\ ~inv.opts.bool_auto
          /\ inv.ax.xscale = "linear" /\ inv.ax.yscale = "linear"
          /\ inv.opts.str_text = <<"Span">> /\ inv.opts.int_line_num = 1 ) =>
           calls[7].s = <<"Span", "\n">> /\ calls[7].rotation = 45 * FP

\* A label drawn at exactly a = 90.
C1_Witness ==
  /\ Called /\ Returned /\ Len(calls) = 7
  /\ Angle = 90 * FP
  /\ calls[7].rotation = 90 * FP
  /\ Appended(calls[7].s, inv.opts)

\* The latest call had the end points of the call before it exchanged and
\* everything else equal, and both drew a label.
SwappedPair ==
  /\ ncalls > 1 /\ prev.made
  /\ inv.p1 # inv.p2
  /\ prev.inv.p1 = inv.p2 /\ prev.inv.p2 = inv.p1
  /\ prev.inv.opts = inv.opts /\ prev.inv.fontdict = inv.fontdict
  /\ prev.inv.ax = inv.ax /\ prev.inv.fig = inv.fig
  /\ inv.opts.str_text # <<>>
  /\ prev.label # <<>> /\ Len(calls) = 7

\* The rotation of the latest label minus that of the one before, mod 360.
RotationChange == (calls[7].rotation - prev.label[2]) % (360 * FP)

Flipped ==
  \/ Appended(prev.label[1], inv.opts) /\ Prepended(calls[7].s, inv.opts)
  \/ Prepended(prev.label[1], inv.opts) /\ Appended(calls[7].s, inv.opts)

\* C2 as stated: exchanging p1 and p2 flips the placement of the breaks and
\* changes the rotation by exactly 180 degrees modulo 360.
C2_SwapTurnsRotation ==
  SwappedPair => Flipped /\ Abs(RotationChange - 180 * FP) <= Tol

\* C2 amended: exchanging p1 and p2 flips the placement of the breaks and
\* leaves the rotation unchanged modulo 360, except when a is exactly 90 or
\* 270, where the breaks stay appended and the rotation changes by 180.
C2_SwapKeepsRotation ==
  SwappedPair =>
    IF Angle \in {90 * FP, 270 * FP}
    THEN /\ Appended(prev.label[1], inv.opts) /\ Appended(calls[7].s, inv.opts)
         /\ RotationChange = 180 * FP
    ELSE /\ Flipped
         /\ (RotationChange <= Tol \/ RotationChange >= 360 * FP - Tol)

\* A swapped pair away from the vertical: 225 degrees after 45.
C2_Witness ==
  /\ SwappedPair
  /\ Angle = 225 * FP
  /\ calls[7].rotation = 405 * FP /\ prev.label[2] = 45 * FP
  /\ Prepended(calls[7].s, inv.opts)

\* C3: a non-positive coordinate on a logarithmic axis is reported to the
\* caller as an error: the call does not return, so no theta, summit or arc
\* that is NaN or infinite reaches the caller.
C3_DomainErrorReported == (Called /\ ~InDomain) => ~Returned

\* C4: a call that returns has made exactly these draw calls: the four arcs
\* in order, the line from arc1's last point to arc2's second, the line from
\* arc3's last point to arc4's second, all six with the caller's kwargs, and
\* then one centred text at the summit with the caller's fontdict if and
\* only if str_text is not empty.
C4_DrawCalls ==
  (Called /\ Returned) =>
    LET n == NumSamples
        k == inv.opts.kwargs
    IN  /\ Len(calls) = IF inv.opts.str_text # <<>> THEN 7 ELSE 6
        /\ calls[1] = [op |-> "plot", x |-> ret.arc1.x, y |-> ret.arc1.y, kwargs |-> k]
        /\ calls[2] = [op |-> "plot", x |-> ret.arc2.x, y |-> ret.arc2.y, kwargs |-> k]
        /\ calls[3] = [op |-> "plot", x |-> ret.arc3.x, y |-> ret.arc3.y, kwargs |-> k]
        /\ calls[4] = [op |-> "plot", x |-> ret.arc4.x, y |-> ret.arc4.y, kwargs |-> k]
        /\ calls[5] = [op |-> "plot", x |-> <<ret.arc1.x[n], ret.arc2.x[2]>>,
                       y |-> <<ret.arc1.y[n], ret.arc2.y[2]>>, kwargs |-> k]
        /\ calls[6] = [op |-> "plot", x |-> <<ret.arc3.x[n], ret.arc4.x[2]>>,
                       y |-> <<ret.arc3.y[n], ret.arc4.y[2]>>, kwargs |-> k]
        /\ Len(calls) = 7 =>
             /\ calls[7].op = "text"
             /\ calls[7].x = ret.summit[1] /\ calls[7].y = ret.summit[2]
             /\ calls[7].ha = "center" /\ calls[7].va = "center"
             /\ calls[7].fontdict = inv.fontdict

\* A returned call with a label whose arc2 starts with two distinct points.
C4_Witness ==
  /\ Called /\ Returned /\ Len(calls) = 7
  /\ ret.arc2.x[1] # ret.arc2.x[2]

\* C5 as stated: in pixels, arc1's last point is arc2's first and arc3's
\* last point is arc4's first.
C5_ArcsMeet ==
  (Called /\ InDomain) =>
    LET n == NumSamples
    IN  /\ Close(loc.arc1.x[n], loc.arc2.x[1]) /\ Close(loc.arc1.y[n], loc.arc2.y[1])
        /\ Close(loc.arc3.x[n], loc.arc4.x[1]) /\ Close(loc.arc3.y[n], loc.arc4.y[1])

\* Half the chord less 2r, along the chord: the straight piece between two
\* arcs.
GapX == FSub(FDiv(FSub(loc.pt2[1], loc.pt1[1]), 2 * FP), FMul(FMul(2 * FP, loc.r), Cos(loc.theta)))
GapY == FSub(FDiv(FSub(loc.pt2[2], loc.pt1[2]), 2 * FP), FMul(FMul(2 * FP, loc.r), Sin(loc.theta)))

\* C5 amended: in pixels, arc2's first point is arc1's last displaced along
\* the chord by half the chord's length less 2r, and arc4's first point is
\* arc3's last displaced by the same; they meet only when that is zero.
C5_ArcsJoinedByChordPiece ==
  (Called /\ InDomain) =>
    LET n == NumSamples
    IN  /\ Close(loc.arc2.x[1] - loc.arc1.x[n], GapX)
        /\ Close(loc.arc2.y[1] - loc.arc1.y[n], GapY)
        /\ Close(loc.arc4.x[1] - loc.arc3.x[n], GapX)
        /\ Close(loc.arc4.y[1] - loc.arc3.y[n], GapY)

\* A brace with k_r = 0.1 whose arc1 ends well away from where arc2 starts.
C5_Witness ==
  /\ Called /\ InDomain /\ loc.r > 0
  /\ Abs(GapX) + Abs(GapY) > 100 * Tol

\* The chord's midpoint in pixels taken back to the axis coordinates.
MidPoint ==
  << ToAxis(FDiv(FAdd(loc.pt2[1], loc.pt1[1]), 2 * FP), loc.ax_xlim, loc.xscale, inv.ax.xscale),
     ToAxis(FDiv(FAdd(loc.pt2[2], loc.pt1[2]), 2 * FP), loc.ax_ylim, loc.yscale, inv.ax.yscale) >>

AllAt(a, pt) ==
  \E c \in {pt} : \A j \in 1..NumSamples : Close(a.x[j], c[1]) /\ Close(a.y[j], c[2])

\* C6: when r is zero the call returns, every point of arc1 is p1, every
\* point of arc2 and arc3 is the chord's midpoint, every point of arc4 is p2
\* and the summit is the midpoint.
C6_ZeroRadius ==
  (Called /\ loc.r = 0) =>
     /\ Returned
     /\ AllAt(ret.arc1, inv.p1)
     /\ AllAt(ret.arc2, MidPoint)
     /\ AllAt(ret.arc3, MidPoint)
     /\ AllAt(ret.arc4, inv.p2)
     /\ Close(ret.summit[1], MidPoint[1]) /\ Close(ret.summit[2], MidPoint[2])

\* r = 0 from k_r = 0 on two distinct points.
C6_Witness ==
  /\ Called /\ Returned /\ loc.r = 0
  /\ inv.p1 # inv.p2 /\ inv.opts.k_r = 0
  /\ ret.summit # inv.p1

\* C7 as stated: with bool_auto off and p1 # p2, theta is arctan2 of the
\* differences of the coordinates as given, on linear and logarithmic axes.
C7_ThetaFromData ==
  (Called /\ InDomain /\ ~inv.opts.bool_auto /\ inv.p1 # inv.p2) =>
     /\ loc.pt2[1] - loc.pt1[1] = inv.p2[1] - inv.p1[1]
     /\ loc.pt2[2] - loc.pt1[2] = inv.p2[2] - inv.p1[2]
     /\ loc.theta = Atan2(inv.p2[2] - inv.p1[2], inv.p2[1] - inv.p1[1])

\* C7 amended: with bool_auto off and p1 # p2, the two differences given to
\* arctan2 are, on a linear axis, the difference of the coordinates as given
\* and, on a logarithmic axis, the difference of their logarithms, whatever
\* the limits; theta is arctan2 of the given coordinates' differences when
\* both axes are linear.
C7_ThetaFromDataOrLogs ==
  (Called /\ InDomain /\ ~inv.opts.bool_auto /\ inv.p1 # inv.p2) =>
     /\ loc.pt2[1] - loc.pt1[1] = LogOf(inv.ax.xscale, inv.p2[1]) - LogOf(inv.ax.xscale, inv.p1[1])
     /\ loc.pt2[2] - loc.pt1[2] = LogOf(inv.ax.yscale, inv.p2[2]) - LogOf(inv.ax.yscale, inv.p1[2])
     /\ loc.theta = Atan2(loc.pt2[2] - loc.pt1[2], loc.pt2[1] - loc.pt1[1])
     /\ (~HasLog(inv.ax.xscale) /\ ~HasLog(inv.ax.yscale)) =>
          loc.theta = Atan2(inv.p2[2] - inv.p1[2], inv.p2[1] - inv.p1[1])

\* bool_auto off on a logarithmic x axis, the two points apart along it.
C7_Witness ==
  /\ Called /\ Returned /\ InDomain /\ ~inv.opts.bool_auto
  /\ HasLog(inv.ax.xscale) /\ ~HasLog(inv.ax.yscale)
  /\ inv.p1[1] # inv.p2[1] /\ inv.p1[2] # inv.p2[2]
  /\ loc.pt2[1] - loc.pt1[1] # inv.p2[1] - inv.p1[1]
  /\ IsFinite(loc.theta)

\* The unit normal of the chord, (-sin theta, cos theta).
Normal == <<0 - Sin(loc.theta), Cos(loc.theta)>>

\* How far the point j of pixel arc a lies from the line through pt1 and
\* pt2, measured along the unit normal nrm.
Offset(a, j, nrm) ==
  Abs(FAdd(FMul(a.x[j] - loc.pt1[1], nrm[1]), FMul(a.y[j] - loc.pt1[2], nrm[2])))

Chord == Hypot(loc.pt2[1] - loc.pt1[1], loc.pt2[2] - loc.pt1[2])

\* C8: the summit returned is arc2's last point; in pixels that point is the
\* chord's midpoint moved by 2r along (-sin theta, cos theta); and no point
\* of any arc is farther from the line through pt1 and pt2 than it.
C8_Summit ==
  (Called /\ Returned /\ InDomain) =>
    \E n \in {NumSamples} : \E nrm \in {Normal} :
    \E most \in {Offset(loc.arc2, n, nrm) + Slack(Chord)} :
        /\ ret.summit = <<ret.arc2.x[n], ret.arc2.y[n]>>
        /\ Close(loc.arc2.x[n],
                 FDiv(loc.pt1[1] + loc.pt2[1], 2 * FP) + FMul(FMul(2 * FP, loc.r), nrm[1]))
        /\ Close(loc.arc2.y[n],
                 FDiv(loc.pt1[2] + loc.pt2[2], 2 * FP) + FMul(FMul(2 * FP, loc.r), nrm[2]))
        /\ \A j \in 1..n :
             /\ Offset(loc.arc1, j, nrm) <= most
             /\ Offset(loc.arc2, j, nrm) <= most
             /\ Offset(loc.arc3, j, nrm) <= most
             /\ Offset(loc.arc4, j, nrm) <= most

\* A brace in pixels with a summit well off the chord.
C8_Witness ==
  /\ Called /\ Returned /\ InDomain /\ inv.opts.bool_auto
  /\ Offset(loc.arc2, NumSamples, Normal) > 10 * FP
  /\ Offset(loc.arc1, 1, Normal) <= Tol

\* C9: a call leaves the caller's p1, p2 and other arguments and the shared
\* default fontdict as they were, and a call made with the arguments and
\* axes of the call before it returns the same values and makes the same
\* draw calls.
C9_NoStateKept ==
  [][ ncalls' = ncalls + 1 =>
        /\ p1' = p1 /\ p2' = p2 /\ opts' = opts /\ defaults' = defaults
        /\ (ncalls > 0 /\ inv' = inv) => (ret' = ret /\ calls' = calls) ]_vars

\* Two calls in a row with the same arguments, the second with a label
\* drawn with the default fontdict.
C9_Witness ==
  /\ ncalls > 1 /\ prev.made /\ prev.inv = inv
  /\ Returned /\ Len(calls) = 7
  /\ inv.opts.fontdict = "default"

\* C10: the first point of arc1 returned is p1 and the last point of arc4
\* returned is p2, for every k_r, with bool_auto on or off.
C10_EndsAtPoints ==
  (Called /\ Returned /\ InDomain) =>
     /\ Close(ret.arc1.x[1], inv.p1[1]) /\ Close(ret.arc1.y[1], inv.p1[2])
     /\ Close(ret.arc4.x[NumSamples], inv.p2[1]) /\ Close(ret.arc4.y[NumSamples], inv.p2[2])

\* A brace on a logarithmic x axis with bool_auto on and r > 0.
C10_Witness ==
  /\ Called /\ Returned /\ InDomain
  /\ inv.ax.xscale = "log" /\ inv.opts.bool_auto /\ loc.r > 0
  /\ inv.p1 # inv.p2
  /\ Close(ret.arc1.x[1], inv.p1[1]) /\ Close(ret.arc4.x[NumSamples], inv.p2[1])

=============================================================================
